---- MODULE Spec2Model ----
(***************************************************************************)
(* The double-slit experiment of website.py (show_doubleslit and its       *)
(* per-frame callback animate): rejection sampling of landing positions,   *)
(* the growing list landed_y, the in-flight dot, the impact scatter and    *)
(* the max-normalised 29-bar histogram.                                    *)
(*                                                                         *)
(* Number representation.  Positions on the detector are integers k that   *)
(* stand for y = k / Unit with Unit = 58, so that the 30 bin edges of      *)
(* np.linspace(-1, 1, 30) are the integers -58, -54, ..., 58.  Acceptance  *)
(* probabilities and thresholds are integers p that stand for p / PScale.  *)
(* The 29 bar widths num[i] / den are the record bars.  The dot is the pair *)
(* <<x, y>> with x in tenths and y in units of 1 / (Unit * Cadence).       *)
(***************************************************************************)
EXTENDS Integers, Sequences, FiniteSets

VARIABLES run, frame, pc, landed_y, r_y, rnd, retries, dot, impacts, bars, repeat

vars == <<run, frame, pc, landed_y, r_y, rnd, retries, dot, impacts, bars, repeat>>

(* ---------------------------- bounds ----------------------------------- *)

\* frames rendered in one run by the model (the program renders Frames)
MaxFrames == 50

\* rejected draws counted exactly in one sampling attempt; the counter
\* `retries' saturates at RetryCap + 1
RetryCap == 2

\* times the script runs show_doubleslit
MaxRuns == 2

\* frames of a run on which the frame update may be called a second time
MaxRedrawFrame == 4

(* ------------------------ program constants ---------------------------- *)

Cadence == 5

NumEdges == 30

NumBars == 29

Frames == 100

PScale == 1000000

Unit == 2 * NumBars

NoValue == 0 - (Unit + 1)

Min(a, b) == IF a <= b THEN a ELSE b

(* ------------------------ probability model ---------------------------- *)

\* floor(PScale * cos(10 y)^2 * sinc(2 y)^2) for y = k / Unit, k = -58 .. 58
IntensityTable ==
   << 0, 259, 1190, 2862, 5084, 7417, 9273, 10091, 9529,
      7622, 4840, 2029, 221, 371, 3072, 8343, 15552, 23513,
      30731, 35765, 37580, 35823, 30914, 23931, 16318, 9480, 4406,
      1431, 218, 0, 16, 17, 665, 3680, 11609, 27226,
      52646, 88389, 132637, 180950, 226635, 261787, 278881, 272625, 241650,
      189624, 125431, 62242, 15517, 262, 28013, 104185, 226332, 383787,
      558828, 729258, 871959, 966776, 1000000, 966776, 871959, 729258, 558828,
      383787, 226332, 104185, 28013, 262, 15517, 62242, 125431, 189624,
      241650, 272625, 278881, 261787, 226635, 180950, 132637, 88389, 52646,
      27226, 11609, 3680, 665, 17, 16, 0, 218, 1431,
      4406, 9480, 16318, 23931, 30914, 35823, 37580, 35765, 30731,
      23513, 15552, 8343, 3072, 371, 221, 2029, 4840, 7622,
      9529, 10091, 9273, 7417, 5084, 2862, 1190, 259, 0 >>

IntensityNone(k) == 0

prob(k) == IntensityTable[k + Unit + 1]

\* values np.random.uniform(-1, 1) is let to return: the left end -1, the
\* centre 0 and the left edge 54/58 of the last bin
Candidates == {0 - Unit, 0, Unit - 4}

\* values np.random.random() is let to return, in [0, 1)
Thresholds == {0, PScale - 1}

AcceptsAtOrBelow(y, t) == t <= prob(y)

Accepts(y, t) == t < prob(y)

(* --------------------------- histogram --------------------------------- *)

Edge(i) == (0 - Unit) + ((2 * Unit) * (i - 1)) \div (NumEdges - 1)

InBinClosed(k, i) == Edge(i) <= k /\ k <= Edge(i + 1)

InBin(k, i) ==
   /\ Edge(i) <= k
   /\ \/ k < Edge(i + 1)
      \/ i = NumBars /\ k = Edge(i + 1)

\* np.histogram(landed_y, bins=bins)
Histogram(l) ==
   [i \in 1..NumBars |-> Cardinality({j \in 1..Len(l) : InBin(l[j], i)})]

MaxOf(h) ==
   LET S == {h[i] : i \in DOMAIN h}
   IN  CHOOSE m \in S : \A x \in S : x <= m

SumOf(h) == LET S[i \in 0..NumBars] == IF i = 0 THEN 0 ELSE S[i - 1] + h[i]
            IN  S[NumBars]

NormalizeBySum(h) == [num |-> h, den |-> IF SumOf(h) > 0 THEN SumOf(h) ELSE 1]

\* hist / max(hist) if max(hist) > 0 else hist: bar i gets num[i] / den
Normalize(h) == [num |-> h, den |-> IF MaxOf(h) > 0 THEN MaxOf(h) ELSE 1]

\* np.zeros(29)
ZeroBars == [num |-> [i \in 1..NumBars |-> 0], den |-> 1]

(* --------------------------- flight ------------------------------------ *)

IsSampleFrameOffByOne(f) == f % Cadence = 1

IsSampleFrame(f) == f % Cadence = 0

Sub(f) == f % Cadence

StartDot == <<-15, 0>>

DotPosIncremental(f, l, old) ==
   IF l # <<>>
   THEN IF old = <<>> \/ Sub(f) = 0 THEN StartDot
        ELSE <<old[1] + 40 \div Cadence, old[2] + l[Len(l)]>>
   ELSE old

DotPosNoReset(f, l, old) ==
   IF l # <<>>
   THEN <<-15 + (40 * (Sub(f) + 1)) \div Cadence, l[Len(l)] * (Sub(f) + 1)>>
   ELSE old

DotPos(f, l, old) ==
   IF l # <<>>
   THEN <<-15 + (40 * Sub(f)) \div Cadence, l[Len(l)] * Sub(f)>>
   ELSE old

(* --------------------------- the run ----------------------------------- *)

Init ==
   /\ run = 1
   /\ frame = -1
   /\ pc = "idle"
   /\ landed_y = <<>>
   /\ r_y = NoValue
   /\ rnd = NoValue
   /\ retries = 0
   /\ dot = <<>>
   /\ impacts = <<>>
   /\ bars = ZeroBars
   /\ repeat = FALSE

\* lines 296-312 of animate for frame f and the landed list l
Render(f, l) ==
   /\ dot' = DotPos(f, l, dot)
   /\ impacts' = l
   /\ \E hist \in {Histogram(l)} :
         bars' = IF Len(l) > 0 THEN Normalize(hist) ELSE bars

\* animate(f) on a frame that samples: enters the while loop
SampleBegin(f, rep) ==
   /\ pc = "idle"
   /\ IsSampleFrame(f)
   /\ frame' = f
   /\ pc' = "sampling"
   /\ r_y' = NoValue
   /\ rnd' = NoValue
   /\ retries' = 0
   /\ repeat' = rep
   /\ UNCHANGED <<run, landed_y, dot, impacts, bars>>

\* animate(f) on a frame that does not sample: the whole call
FlightOnly(f, rep) ==
   /\ pc = "idle"
   /\ ~IsSampleFrame(f)
   /\ frame' = f
   /\ r_y' = NoValue
   /\ rnd' = NoValue
   /\ retries' = 0
   /\ repeat' = rep
   /\ Render(f, landed_y)
   /\ UNCHANGED <<run, pc, landed_y>>

animate(f, rep) == SampleBegin(f, rep) \/ FlightOnly(f, rep)

DrawRejectCapped ==
   /\ pc = "sampling"
   /\ \E y \in Candidates, t \in Thresholds :
         /\ ~Accepts(y, t)
         /\ r_y' = y
         /\ rnd' = t
   /\ retries' = Min(retries + 1, RetryCap + 1)
   /\ IF retries >= RetryCap
      THEN pc' = "idle" /\ Render(frame, landed_y)
      ELSE UNCHANGED <<pc, dot, impacts, bars>>
   /\ UNCHANGED <<run, frame, landed_y, repeat>>

\* one iteration of the while loop whose candidate is rejected
DrawReject ==
   /\ pc = "sampling"
   /\ \E y \in Candidates, t \in Thresholds :
         /\ ~Accepts(y, t)
         /\ r_y' = y
         /\ rnd' = t
   /\ retries' = Min(retries + 1, RetryCap + 1)
   /\ UNCHANGED <<run, frame, pc, landed_y, dot, impacts, bars, repeat>>

\* the iteration whose candidate is accepted, and the rest of the call
DrawAccept ==
   /\ pc = "sampling"
   /\ \E y \in Candidates, t \in Thresholds :
         /\ Accepts(y, t)
         /\ r_y' = y
         /\ rnd' = t
         /\ landed_y' = Append(landed_y, y)
         /\ \E l \in {Append(landed_y, y)} : Render(frame, l)
   /\ pc' = "idle"
   /\ UNCHANGED <<run, frame, retries, repeat>>

\* FuncAnimation(frames=100) saved by to_jshtml: frames 0, 1, 2, ... in order
NextFrame ==
   /\ frame + 1 < Min(Frames, MaxFrames)
   /\ animate(frame + 1, FALSE)

\* the script runs again and calls show_doubleslit anew
show_doubleslitKeep ==
   /\ frame >= 0
   /\ run < MaxRuns
   /\ run' = run + 1
   /\ frame' = -1
   /\ pc' = "idle"
   /\ r_y' = NoValue
   /\ rnd' = NoValue
   /\ retries' = 0
   /\ repeat' = FALSE
   /\ UNCHANGED <<landed_y, dot, impacts, bars>>

show_doubleslit ==
   /\ frame >= 0
   /\ run < MaxRuns
   /\ run' = run + 1
   /\ frame' = -1
   /\ pc' = "idle"
   /\ landed_y' = <<>>
   /\ r_y' = NoValue
   /\ rnd' = NoValue
   /\ retries' = 0
   /\ dot' = <<>>
   /\ impacts' = <<>>
   /\ bars' = ZeroBars
   /\ repeat' = FALSE

\* the frame update called a second time with the index of the last call
Redraw ==
   /\ frame >= 0
   /\ frame < MaxRedrawFrame
   /\ ~repeat
   /\ animate(frame, TRUE)

Next == NextFrame \/ DrawReject \/ DrawAccept \/ show_doubleslit

Spec == Init /\ [][Next]_vars

\* one run, to its end
NextRun == NextFrame \/ DrawReject \/ DrawAccept

\* one run in which the random source is fair to the accepting draws
FairSpec == Init /\ [][NextRun]_vars /\ WF_vars(NextFrame) /\ WF_vars(DrawAccept)

NextRedraw == NextFrame \/ DrawReject \/ DrawAccept \/ Redraw

RedrawSpec == Init /\ [][NextRedraw]_vars

(* ============================ claims =================================== *)

IsPrefix(a, b) == Len(a) <= Len(b) /\ SubSeq(b, 1, Len(a)) = a

Last(l) == l[Len(l)]

\* C1: with frames 0, 1, 2, ... called in order from an empty list, the
\* number of landed particles never decreases within a run, one particle is
\* appended on each frame whose index is a multiple of 5 and none on any
\* other frame, so after the 50 frames 0..49 the count is 10.
C1_CountPerCadence ==
   /\ [](Len(landed_y) = IF pc = "idle" THEN (frame + 5) \div 5
                                        ELSE frame \div 5)
   /\ [](pc = "idle" /\ frame = 49 => Len(landed_y) = 10)
   /\ [][run' = run =>
           /\ Len(landed_y') >= Len(landed_y)
           /\ Len(landed_y') <= Len(landed_y) + 1
           /\ (Len(landed_y') = Len(landed_y) + 1 => frame' % 5 = 0)]_vars

C1_Witness == pc = "idle" /\ frame = 49 /\ Len(landed_y) = 10

\* C2: every displayed bar height is in [0, 1], and whenever a particle has
\* landed at least one of the 29 bars has height exactly 1.
C2_MaxNormalized ==
   /\ DOMAIN bars.num = 1..29
   /\ \A i \in DOMAIN bars.num :
         bars.den > 0 /\ 0 <= bars.num[i] /\ bars.num[i] <= bars.den
   /\ landed_y # <<>> => \E i \in DOMAIN bars.num : bars.num[i] = bars.den

C2_Witness ==
   /\ pc = "idle"
   /\ \E i, j \in DOMAIN bars.num :
         /\ bars.num[i] = bars.den
         /\ 0 < bars.num[j]
         /\ bars.num[j] < bars.den

\* C3 as stated: the sampler bounds the retries of one sampling attempt, so
\* no attempt makes more than RetryCap rejected draws.
C3_Original == retries <= RetryCap

\* C3 as amended: the sampler has no retry bound and no exhausted outcome;
\* a step of the sampling loop either rejects and keeps sampling with the
\* landed list untouched, or accepts and appends exactly one position.
C3_NoRetryBound ==
   [][pc = "sampling" /\ run' = run =>
        /\ frame' = frame
        /\ \/ pc' = "sampling" /\ landed_y' = landed_y
           \/ /\ pc' = "idle"
              /\ Len(landed_y') = Len(landed_y) + 1
              /\ IsPrefix(landed_y, landed_y')]_vars

C3_Witness == pc = "sampling" /\ retries > RetryCap

\* C4 as stated: the newest sampled position is not in the impact list
\* while its travel has not been shown (the dot is still at the start).
C4_Original ==
   (pc = "idle" /\ landed_y # <<>> /\ dot = <<-15, 0>>)
      => Len(impacts) < Len(landed_y)

C6_SampledExactlyOnCadence ==
   /\ [](pc = "sampling" => frame % 5 = 0)
   /\ [](pc = "idle" /\ frame >= 0 =>
           /\ (frame % 5 = 0) <=> (r_y # NoValue)
           /\ frame % 5 = 0 => r_y = Last(landed_y) /\ dot = <<-15, 0>>
           /\ dot = <<-15 + 8 * (frame % 5), Last(landed_y) * (frame % 5)>>)
   /\ [][run' = run /\ frame' # frame /\ frame' % 5 # 0 =>
           /\ pc' = "idle"
           /\ landed_y' = landed_y
           /\ Last(landed_y') = Last(landed_y)]_vars

C6_Witness ==
   /\ pc = "idle"
   /\ frame % 5 = 3
   /\ Len(landed_y) >= 2
   /\ dot = <<9, 3 * (Unit - 4)>>

\* C7: a second call with the same frame index, when frame mod 5 # 0, gives
\* the same in-flight position and leaves the landed list unchanged; the
\* position depends on the frame index and the landed list only.
C7_RedrawIdempotent ==
   /\ [][repeat' /\ frame' % 5 # 0 =>
           frame' = frame /\ dot' = dot /\ landed_y' = landed_y]_vars
   /\ [](pc = "idle" /\ landed_y # <<>> =>
           /\ 10 * dot[1] = -150 + 80 * (frame % 5)
           /\ dot[2] = Last(landed_y) * (frame % 5))

C7_Witness ==
   /\ repeat
   /\ pc = "idle"
   /\ frame % 5 = 2
   /\ dot = <<1, 2 * (Unit - 4)>>

\* C8: every sampling attempt ends with an accepted position when the
\* random source is fair to the accepting draws, so every frame update with
\* frame mod 5 = 0 completes.
C8_SamplerTerminates ==
   (pc = "sampling") ~> (pc = "idle" /\ frame % 5 = 0 /\ r_y = Last(landed_y))

C8_Witness == pc = "sampling" /\ retries > 0 /\ Len(landed_y) > 0

\* C9: a candidate y with threshold u is accepted and appended iff u < I(y),
\* otherwise a fresh pair is drawn; the value appended is the candidate; a
\* first draw of y = 0 with u = 0 is accepted with 0 retries.
C9_AcceptanceRule ==
   [][pc = "sampling" /\ run' = run =>
        /\ r_y' \in Candidates /\ rnd' \in Thresholds
        /\ (pc' = "idle") <=> (rnd' < IntensityTable[r_y' + 59])
        /\ pc' = "idle" => landed_y' = Append(landed_y, r_y')
        /\ pc' # "idle" => pc' = "sampling" /\ landed_y' = landed_y
        /\ (retries = 0 /\ r_y' = 0 /\ rnd' = 0) =>
              pc' = "idle" /\ retries' = 0]_vars

C9_Witness ==
   /\ pc = "idle"
   /\ retries = 0
   /\ r_y = 0
   /\ rnd = 0
   /\ landed_y = <<0>>

\* C10: every landed position is in [-1, 1] and lies in exactly one of the
\* 29 bins, the raw bin counts add up to the number of landed particles, and
\* the maximum count is positive whenever a particle has landed.
C10_Conservation ==
   /\ \A j \in 1..Len(landed_y) :
         /\ 0 - Unit <= landed_y[j] /\ landed_y[j] <= Unit
         /\ Cardinality({i \in 1..NumBars : InBin(landed_y[j], i)}) = 1
   /\ (pc = "idle" /\ frame >= 0) =>
         /\ SumOf(bars.num) = Len(landed_y)
         /\ bars.den >= 1
         /\ \E i \in 1..NumBars : bars.num[i] = bars.den

C10_Witness ==
   /\ pc = "idle"
   /\ Len(landed_y) >= 3
   /\ \E j \in 1..Len(landed_y) : landed_y[j] = Edge(NumBars)
   /\ bars.num[NumBars] >= 2

====
